---- MODULE Spec2Model ----
(***************************************************************************)
(* discord_components/interaction.py: Interaction.__init__ and the         *)
(* coroutine Interaction.respond, with the HTTP client's request log.      *)
(*                                                                         *)
(* Python objects are named by strings; None is the string "None", True    *)
(* and False are "True" and "False".  A dict is a function from its keys.  *)
(* A respond call runs from its first line to its only await without       *)
(* yielding (asyncio runs a coroutine body synchronously up to an await),  *)
(* so that part is one action; the completion of the awaited request is    *)
(* another.                                                                *)
(***************************************************************************)
EXTENDS Integers, Sequences, FiniteSets, TLC

VARIABLES
    inter,      \* the Interaction objects' attributes
    lists,      \* the caller-owned embed lists (mutable, passed by reference)
    requests,   \* every request handed to bot.http.request, in order
    calls,      \* every respond call made so far: its object and its outcome
    last        \* the arguments of the most recent respond call

vars == <<inter, lists, requests, calls, last>>

\* ---------------------------------------------------------------- bounds

\* respond calls made in one behaviour
MaxCalls == 2

\* ------------------------------------------------------- program constants

None == "None"

\* class InteractionType
InteractionType ==
    [Pong |-> 1,
     ChannelMessageWithSource |-> 4,
     DeferredChannelMessageWithSource |-> 5,
     DeferredUpdateMessage |-> 6,
     UpdateMessage |-> 7]

\* 1 << n
Shl(n) == 2 ^ n

\* class FlagsType
FlagsType ==
    [Crossposted |-> Shl(0),
     Is_crosspost |-> Shl(1),
     Suppress_embeds |-> Shl(2),
     Source_message_deleted |-> Shl(3),
     Urgent |-> Shl(4),
     Ephemeral |-> Shl(6),
     Loading |-> Shl(7)]

\* the limit in "if len(embeds) > 10"
EmbedLimit == 10

\* ------------------------------------------------------------ the objects

Interactions == {"inter1", "inter2"}

\* raw_data, the JSON sent by the gateway: only d.id and d.token are read
RawData(i) ==
    IF i = "inter1"
    THEN [d |-> [id |-> "id1", token |-> "tokA"]]
    ELSE [d |-> [id |-> "id2", token |-> "tokB"]]

\* the client each is built with
BotOf(i) == IF i = "inter1" THEN "botPlain" ELSE "botMentions"

\* the messages an Interaction is built with; "msgDM" is a direct message,
\* whose guild is None
Messages == {None, "msgGuild", "msgDM"}

MessageChannel(m) == IF m = "msgGuild" THEN "chanText" ELSE "chanDM"
MessageGuild(m) == IF m = "msgGuild" THEN "guild1" ELSE None

\* bool(message): a message object is always truthy
MessageTruthy(m) == m # None

\* Embeds.  len(embed) counts the characters of its text fields only, and an
\* object whose __len__ is 0 is falsy: an embed holding only an image is.
Embeds == {"embedText", "embedImage"}
EmbedTextLen(e) == IF e = "embedText" THEN 5 ELSE 0
EmbedTruthy(e) == e # None /\ EmbedTextLen(e) > 0

\* Embed.to_dict()
EmbedToDict(e) ==
    IF e = "embedText"
    THEN [type |-> "rich", description |-> "hello"]
    ELSE [type |-> "rich", image |-> "http://img"]

\* bool(x) of the plain values passed as ephemeral
Truthy(v) == v \notin {None, "False", "0", ""}

\* ------------------------------------------------------------------ dicts

EmptyDict == [k \in {} |-> 0]

\* {**a, **b}
Merge(a, b) ==
    [k \in DOMAIN a \cup DOMAIN b |-> IF k \in DOMAIN b THEN b[k] ELSE a[k]]

\* d[k] = v
SetItem(d, k, v) ==
    [x \in DOMAIN d \cup {k} |-> IF x = k THEN v ELSE d[x]]

\* list(map(f, s))
RECURSIVE MapToDict(_)
MapToDict(s) ==
    IF s = <<>> THEN <<>>
    ELSE <<EmbedToDict(Head(s))>> \o MapToDict(Tail(s))

\* ------------------------------------------------- objects of the library

\* discord.AllowedMentions, two of its fields; "default" is the library's
\* truthy placeholder for a field that was not given
AllowedMentionsObj(name) ==
    IF name = "amArg"
    THEN [everyone |-> "False", users |-> "default"]
    ELSE [everyone |-> "True", users |-> "False"]

\* AllowedMentions.merge(other): other's fields win unless left at default
AllowedMentionsMerge(self, other) ==
    [f \in DOMAIN self |-> IF other[f] = "default" THEN self[f] ELSE other[f]]

\* AllowedMentions.to_dict()
AllowedMentionsToDict(am) ==
    [parse |-> {f \in DOMAIN am : am[f] \in {"default", "True"}}]

\* bot._get_state(): the client's connection state, read for its
\* allowed_mentions only; "botMentions" was created with allowed_mentions
_get_state(bot) ==
    [allowed_mentions |-> IF bot = "botMentions" THEN "amState" ELSE None]

\* client._get_components_json(components): the JSON dict of the components;
\* "rowFlags" stands for components whose JSON also carries a flags key
_get_components_json(components) ==
    IF components = None THEN EmptyDict
    ELSE IF components = "row" THEN [components |-> "rowJson"]
    ELSE [components |-> "rowJson", flags |-> FlagsType.Loading]

\* ----------------------------------------------------------- constructor

\* Interaction.__init__
New(bot, client, user, component, raw_data, message, is_ephemeral) ==
    [bot |-> bot,
     client |-> client,
     user |-> user,
     author |-> user,
     component |-> component,
     raw_data |-> raw_data,
     is_ephemeral |-> is_ephemeral,
     responded |-> FALSE,
     message |-> message,
     channel |-> IF MessageTruthy(message) THEN MessageChannel(message) ELSE None,
     guild |-> IF MessageTruthy(message) THEN MessageGuild(message) ELSE None,
     interaction_id |-> raw_data["d"]["id"],
     interaction_token |-> raw_data["d"]["token"]]

\* --------------------------------------------------- arguments of respond

\* a call's keyword arguments: passed holds the names given by the caller,
\* the other fields their values (unread when the name is not in passed)
NoArgs ==
    [passed |-> {}, type |-> 0, content |-> None, embed |-> None,
     embeds |-> None, allowed_mentions |-> None, tts |-> None,
     ephemeral |-> None, components |-> None, options |-> EmptyDict]

With(a, name, v) == [[a EXCEPT !.passed = @ \cup {name}] EXCEPT ![name] = v]

\* the value a parameter is bound to: the argument, or the default of the
\* signature
Param(a, name, default) == IF name \in a.passed THEN a[name] ELSE default

p_type(a) == Param(a, "type", InteractionType.ChannelMessageWithSource)
p_content(a) == Param(a, "content", None)
p_embed(a) == Param(a, "embed", None)
p_embeds(a) == Param(a, "embeds", None)
p_allowed_mentions(a) == Param(a, "allowed_mentions", None)
p_tts(a) == Param(a, "tts", "False")
p_ephemeral(a) == Param(a, "ephemeral", "True")
p_components(a) == Param(a, "components", None)
p_options(a) == a.options

\* the keyword arguments the modelled callers pass: every combination of
\* ephemeral, components and options with and without a flags key, every
\* combination of embed and embeds, and each remaining parameter on its own
ListRefs == {"list1"}

OptionDicts == {EmptyDict, [flags |-> FlagsType.Suppress_embeds]}

FlagArgs ==
    {[[e EXCEPT !.components = c] EXCEPT !.options = o] :
        e \in {NoArgs,
               With(NoArgs, "ephemeral", "True"),
               With(NoArgs, "ephemeral", "False"),
               With(NoArgs, "ephemeral", None)},
        c \in {None, "rowFlags"},
        o \in OptionDicts}

EmbedArgs ==
    {[[e EXCEPT !.passed = @ \cup {"embeds"}] EXCEPT !.embeds = l] :
        e \in {NoArgs} \cup {With(NoArgs, "embed", x) : x \in Embeds},
        l \in ListRefs \cup {None}}

OtherArgs ==
    {With(NoArgs, "type", InteractionType.UpdateMessage),
     With(NoArgs, "content", "hi"),
     With(NoArgs, "tts", "True"),
     With(NoArgs, "tts", None),
     With(NoArgs, "components", "row"),
     With(NoArgs, "allowed_mentions", "amArg")}

CallArgs == FlagArgs \cup EmbedArgs \cup OtherArgs

\* ---------------------------------------------------------------- respond

\* if self.responded: return
AlreadyResponded(self) == self.responded

\* (variant: the flags entry written first, so later entries override it)
BaseData_FlagsFirst(self, a) ==
    Merge(Merge([flags |-> IF Truthy(p_ephemeral(a)) THEN FlagsType.Ephemeral ELSE 0],
                _get_components_json(p_components(a))),
          p_options(a))

\* data = {**components json, **options, "flags": ...}
BaseData(self, a) ==
    Merge(Merge(_get_components_json(p_components(a)), p_options(a)),
          [flags |-> IF Truthy(p_ephemeral(a)) THEN FlagsType.Ephemeral ELSE 0])

\* if content is not None: data["content"] = content
WithContent(data, a) ==
    IF p_content(a) # None THEN SetItem(data, "content", p_content(a)) ELSE data

\* bool(embeds) of the embeds argument: a non-empty list
EmbedsArgTruthy(a, ls) == p_embeds(a) # None /\ Len(ls[p_embeds(a)]) > 0

\* the local embeds after "if embed and embeds ... elif embed ..."; a None
\* and an empty list are both the empty sequence here, both being falsy
LocalEmbeds(a, ls) ==
    IF EmbedTruthy(p_embed(a)) /\ EmbedsArgTruthy(a, ls)
    THEN Append(ls[p_embeds(a)], p_embed(a))
    ELSE IF EmbedTruthy(p_embed(a)) THEN <<p_embed(a)>>
    ELSE IF p_embeds(a) # None THEN ls[p_embeds(a)]
    ELSE <<>>

\* embeds.append(embed) appends to the caller's list object
ListsAfter(a, ls) ==
    IF EmbedTruthy(p_embed(a)) /\ EmbedsArgTruthy(a, ls)
    THEN [ls EXCEPT ![p_embeds(a)] = Append(@, p_embed(a))]
    ELSE ls

\* the dicts of "embeds = list(map(lambda x: x.to_dict(), embeds))"
EmbedDicts(a, ls) == MapToDict(LocalEmbeds(a, ls))

\* if len(embeds) > 10: raise InvalidArgument
TooManyEmbeds(a, ls) ==
    /\ LocalEmbeds(a, ls) # <<>>
    /\ Len(EmbedDicts(a, ls)) > EmbedLimit

\* if embeds: ... data["embeds"] = embeds
WithEmbeds(data, a, ls) ==
    IF LocalEmbeds(a, ls) # <<>>
    THEN SetItem(data, "embeds", EmbedDicts(a, ls))
    ELSE data

\* if allowed_mentions: merge with the state's, or take as given
WithAllowedMentions(data, a, state) ==
    IF p_allowed_mentions(a) # None
    THEN SetItem(data, "allowed_mentions",
            IF state.allowed_mentions # None
            THEN AllowedMentionsToDict(
                    AllowedMentionsMerge(
                        AllowedMentionsObj(state.allowed_mentions),
                        AllowedMentionsObj(p_allowed_mentions(a))))
            ELSE AllowedMentionsToDict(AllowedMentionsObj(p_allowed_mentions(a))))
    ELSE data

\* if tts is not None: data["tts"] = tts
WithTts(data, a) ==
    IF p_tts(a) # None THEN SetItem(data, "tts", p_tts(a)) ELSE data

\* the data dict handed to the request
BuildData(self, a, ls) ==
    WithTts(
        WithAllowedMentions(
            WithEmbeds(WithContent(BaseData(self, a), a), a, ls),
            a, _get_state(self.bot)),
        a)

\* (variant: id and token in the wrong order)
CallbackPath_Swapped(self) ==
    <<"interactions", self.interaction_token, self.interaction_id, "callback">>

\* f"/interactions/{self.interaction_id}/{self.interaction_token}/callback",
\* as its segments
CallbackPath(self) ==
    <<"interactions", self.interaction_id, self.interaction_token, "callback">>

\* Route(method, path)
Route(method, path) == [method |-> method, path |-> path]

\* the arguments of self.bot.http.request(...)
Request(self, a, data) ==
    [route |-> Route("POST", CallbackPath(self)),
     json |-> [type |-> p_type(a), data |-> data]]

\* (variant: the flag is not set before the await)
MarkResponded_Skip(self) == self

\* self.responded = True
MarkResponded(self) == [self EXCEPT !.responded = TRUE]

\* exceptions bot.http.request raises
HttpErrors == {"HTTPException", "NotFound"}

\* (variant: the arguments are validated before the responded guard)
Respond_ValidateFirst(i, a) ==
    /\ Len(calls) < MaxCalls
    /\ last' = [inter |-> i, args |-> a, respondedBefore |-> inter[i].responded,
                listsBefore |-> lists]
    /\ IF TooManyEmbeds(a, lists)
       THEN /\ calls' = Append(calls,
                    [inter |-> i, outcome |-> "InvalidArgument", request |-> 0])
            /\ lists' = ListsAfter(a, lists)
            /\ UNCHANGED <<inter, requests>>
       ELSE IF AlreadyResponded(inter[i])
       THEN /\ calls' = Append(calls, [inter |-> i, outcome |-> None, request |-> 0])
            /\ lists' = ListsAfter(a, lists)
            /\ UNCHANGED <<inter, requests>>
       ELSE /\ inter' = [inter EXCEPT ![i] = MarkResponded(@)]
            /\ requests' = Append(requests,
                    Request(inter[i], a, BuildData(inter[i], a, lists)))
            /\ calls' = Append(calls,
                    [inter |-> i, outcome |-> "awaiting",
                     request |-> Len(requests) + 1])
            /\ lists' = ListsAfter(a, lists)

\* a respond call, from its first line to the await of the request
Respond(i, a) ==
    /\ Len(calls) < MaxCalls
    /\ last' = [inter |-> i, args |-> a, respondedBefore |-> inter[i].responded,
                listsBefore |-> lists]
    /\ IF AlreadyResponded(inter[i])
       THEN /\ calls' = Append(calls, [inter |-> i, outcome |-> None, request |-> 0])
            /\ UNCHANGED <<inter, lists, requests>>
       ELSE IF TooManyEmbeds(a, lists)
       THEN /\ calls' = Append(calls,
                    [inter |-> i, outcome |-> "InvalidArgument", request |-> 0])
            /\ lists' = ListsAfter(a, lists)
            /\ UNCHANGED <<inter, requests>>
       ELSE /\ inter' = [inter EXCEPT ![i] = MarkResponded(@)]
            /\ requests' = Append(requests,
                    Request(inter[i], a, BuildData(inter[i], a, lists)))
            /\ calls' = Append(calls,
                    [inter |-> i, outcome |-> "awaiting",
                     request |-> Len(requests) + 1])
            /\ lists' = ListsAfter(a, lists)

\* the awaited request completes: respond returns None
HttpOk(k) ==
    /\ k \in 1..Len(calls)
    /\ calls[k].outcome = "awaiting"
    /\ calls' = [calls EXCEPT ![k].outcome = None]
    /\ UNCHANGED <<inter, lists, requests, last>>

\* (variant: the flag is cleared when the request fails)
HttpRaise_Rollback(k, e) ==
    /\ k \in 1..Len(calls)
    /\ calls[k].outcome = "awaiting"
    /\ calls' = [calls EXCEPT ![k].outcome = e]
    /\ inter' = [inter EXCEPT ![calls[k].inter].responded = FALSE]
    /\ UNCHANGED <<lists, requests, last>>

\* the awaited request raises: nothing in respond catches it
HttpRaise(k, e) ==
    /\ k \in 1..Len(calls)
    /\ calls[k].outcome = "awaiting"
    /\ calls' = [calls EXCEPT ![k].outcome = e]
    /\ UNCHANGED <<inter, lists, requests, last>>

\* ---------------------------------------------------------- specification

\* the caller's list holds text and image embeds in turn
EmbedList(n) == [k \in 1..n |-> IF k % 2 = 1 THEN "embedText" ELSE "embedImage"]

ListLens == {0, EmbedLimit - 1, EmbedLimit, EmbedLimit + 1}

NoCall == [inter |-> None, args |-> NoArgs, respondedBefore |-> FALSE,
           listsBefore |-> [l \in ListRefs |-> <<>>]]

Init ==
    /\ inter = [i \in Interactions |->
            New(BotOf(i), "client", "userA", "button", RawData(i), None, FALSE)]
    /\ lists \in [ListRefs -> {EmbedList(n) : n \in ListLens}]
    /\ requests = <<>>
    /\ calls = <<>>
    /\ last = NoCall

Next ==
    \/ \E i \in Interactions, a \in CallArgs : Respond(i, a)
    \/ \E k \in 1..MaxCalls : HttpOk(k)
    \/ \E k \in 1..MaxCalls, e \in HttpErrors : HttpRaise(k, e)

Spec == Init /\ [][Next]_vars

\* A new interaction event: Interaction(...) is constructed under the name i
Construct(i, raw_data, message, is_ephemeral) ==
    /\ inter' = [inter EXCEPT ![i] =
            New(BotOf(i), "client", "userA", "button", raw_data, message, is_ephemeral)]
    /\ UNCHANGED <<lists, requests, calls, last>>

NextNew ==
    \E i \in Interactions, m \in Messages, e \in BOOLEAN,
       r \in {RawData(j) : j \in Interactions} :
        Construct(i, r, m, e)

\* the constructor alone, over every combination of its inputs
SpecNew == Init /\ [][NextNew]_vars

\* ------------------------------------------------------------ properties

\* the most recent respond call and the request it issued
LastCall == calls[Len(calls)]
LastRequest == requests[LastCall.request]
Called == Len(calls) > 0
SendingCalls == {k \in 1..Len(calls) : calls[k].request # 0}

\* a step that is a respond call (on last'.inter, with last'.args): only
\* respond adds to calls
RespondStep == Len(calls') = Len(calls) + 1

\* C1: at most one callback request is ever issued for an interaction,
\* however the respond calls on it interleave at the await: no interaction
\* has two sending calls, the log holds one request per sending call, and no
\* two logged requests go to the same callback path.
C1_AtMostOneRequest ==
    /\ \A i \in Interactions :
        Cardinality({k \in SendingCalls : calls[k].inter = i}) <= 1
    /\ Len(requests) = Cardinality(SendingCalls)
    /\ \A j, k \in 1..Len(requests) :
        requests[j].route.path = requests[k].route.path => j = k

\* a second call made while the first one's request is in flight returned
\* without sending
C1_Witness ==
    \E j, k \in 1..Len(calls) :
        /\ j < k
        /\ calls[j].inter = calls[k].inter
        /\ calls[j].outcome = "awaiting"
        /\ calls[k].outcome = None
        /\ calls[k].request = 0

\* C2: a respond call made while responded is False, whose arguments pass
\* validation, issues exactly one request, the newest of the log: a POST to
\* /interactions/{id}/{token}/callback with the id and token of the raw_data
\* the interaction was built from, and a JSON body of exactly the keys type
\* (the type argument) and data (a dict, which carries flags).
C2_ValidCallPostsCallback ==
    (Called /\ ~last.respondedBefore /\ LastCall.outcome # "InvalidArgument") =>
        /\ LastCall.request # 0
        /\ LastCall.request = Len(requests)
        /\ Cardinality({k \in 1..Len(calls) : calls[k].request = LastCall.request}) = 1
        /\ LastRequest.route.method = "POST"
        /\ LastRequest.route.path =
            <<"interactions",
              inter[last.inter].raw_data["d"]["id"],
              inter[last.inter].raw_data["d"]["token"],
              "callback">>
        /\ DOMAIN LastRequest.json = {"type", "data"}
        /\ LastRequest.json.type = p_type(last.args)
        /\ "flags" \in DOMAIN LastRequest.json.data

\* both interactions were answered, the second with an explicit type
C2_Witness ==
    /\ Len(requests) = 2
    /\ ~last.respondedBefore
    /\ "type" \in last.args.passed
    /\ LastRequest.json.type = InteractionType.UpdateMessage
    /\ requests[1].route.path # requests[2].route.path

\* the embeds the caller gave: the list's length at the call, plus one for
\* the single embed
GivenEmbeds ==
    (IF p_embeds(last.args) # None
     THEN Len(last.listsBefore[p_embeds(last.args)]) ELSE 0)
    + (IF p_embed(last.args) # None THEN 1 ELSE 0)

\* C3: a respond call made while responded is False with more than 10 embeds
\* in total (the list plus the single embed, if given) raises
\* InvalidArgument, issues no request and leaves responded False.
C3_OverLimitRaises ==
    (Called /\ ~last.respondedBefore /\ GivenEmbeds > 10) =>
        /\ LastCall.outcome = "InvalidArgument"
        /\ LastCall.request = 0
        /\ ~inter[last.inter].responded

\* C4: when the request raises, respond's caller gets the exception, the
\* responded flag stays True, and every later respond call on that
\* interaction returns None without issuing a request.
C4_FailedRequestStaysResponded ==
    /\ [](\A k \in 1..Len(calls) :
            calls[k].outcome \in HttpErrors =>
                /\ inter[calls[k].inter].responded
                /\ \A j \in (k + 1)..Len(calls) :
                    calls[j].inter = calls[k].inter =>
                        calls[j].outcome = None /\ calls[j].request = 0)
    /\ [][(/\ RespondStep
            /\ \E k \in 1..Len(calls) :
                    calls[k].inter = last'.inter /\ calls[k].outcome \in HttpErrors)
            => /\ requests' = requests
               /\ calls'[Len(calls')].outcome = None
               /\ inter'[last'.inter].responded]_vars

\* a call raised the HTTP client's exception, and a later call on the same
\* interaction returned without a request
C4_Witness ==
    \E k, j \in 1..Len(calls) :
        /\ k < j
        /\ calls[k].outcome = "NotFound"
        /\ calls[j].inter = calls[k].inter
        /\ calls[j].outcome = None
        /\ calls[j].request = 0
        /\ Len(requests) = 1

\* C5: when respond is called without a type argument, the type field of
\* the request body is 6.
C5_DefaultTypeIsSix ==
    (Called /\ LastCall.request # 0 /\ "type" \notin last.args.passed) =>
        LastRequest.json.type = 6

C7_EphemeralHasNoMessage ==
    \A i \in Interactions :
        /\ inter[i].is_ephemeral =>
            /\ inter[i].message = None
            /\ inter[i].channel = None
            /\ inter[i].guild = None
        /\ (inter[i].channel = None /\ inter[i].guild = None)
            <=> (inter[i].message = None)
        /\ inter[i].message # None =>
            /\ inter[i].channel = MessageChannel(inter[i].message)
            /\ inter[i].guild = MessageGuild(inter[i].message)

\* C8: responded is False right after construction, and once it is True a
\* respond call returns None without raising, without a request and without
\* touching its arguments or the object, whatever the arguments.
C8_GuardFirst ==
    /\ \A i \in Interactions : ~inter[i].responded
    /\ [][(RespondStep /\ inter[last'.inter].responded) =>
                /\ calls' = Append(calls,
                        [inter |-> last'.inter, outcome |-> None, request |-> 0])
                /\ requests' = requests
                /\ lists' = lists
                /\ inter' = inter]_vars

\* a call on a responded interaction, with a list of 10 embeds and one more
\* embed, returned None and left the caller's list as it was
C8_Witness ==
    /\ Called
    /\ last.respondedBefore
    /\ p_embed(last.args) = "embedText"
    /\ p_embeds(last.args) = "list1"
    /\ Len(last.listsBefore["list1"]) = EmbedLimit
    /\ LastCall.outcome = None
    /\ LastCall.request = 0
    /\ lists = last.listsBefore

====
